---- MODULE Spec2Model ----
(***************************************************************************)
(* FAISSVectorStore of softtek_llm/vectorStores.py: a registry of          *)
(* namespaces, each a list of Vector records (local_id) paired with a     *)
(* flat inner-product index (index), with add, delete and search.         *)
(*                                                                         *)
(* Numbers.  Embeddings are integer vectors.  normalize_L2 maps v to      *)
(* v/|v|; the unit vector is written exactly as the primitive integer     *)
(* direction p (v divided by the gcd of its components) together with     *)
(* |p|^2, standing for p/sqrt(|p|^2).  An inner product of two unit       *)
(* vectors is written exactly as the reduced fraction of its signed       *)
(* square, sign(c)*c^2, which orders as the cosines c do.                  *)
(***************************************************************************)
EXTENDS Integers, Sequences, FiniteSets, TLC

VARIABLES local_id, index, last, pre, disk

vars == <<local_id, index, last, pre, disk>>

----------------------------------------------------------------------------
(* Bounds of the explored calls *)

MaxLen == 2
MaxBatch == 2
MaxIds == 2
MaxK == 2
MaxNamespaces == 2

----------------------------------------------------------------------------
(* Inputs *)

None == "<None>"

NamespaceKeys == {None, "ns"}

Ids == {"a", "b", ""}

Dims == {2}

EmptyMeta == [k \in {} |-> 0]

Vector(i, e, m) == [id |-> i, embeddings |-> e, metadata |-> m]

\* metadata a caller attaches to a record it stores, and to a query
StoredMeta == [tag |-> "stored"]

QueryMeta == [tag |-> "query"]

\* the Vector objects a caller submits: of length 2 and of length 1, one with
\* an empty id, one with metadata, and embeddings that are not unit vectors
VectorInputs ==
    {Vector("a", <<2, 0>>, EmptyMeta), Vector("b", <<0, 1>>, StoredMeta),
     Vector("", <<2, 0>>, EmptyMeta),
     Vector("a", <<3>>, EmptyMeta)}

\* the query Vectors of search: of length 2 with metadata, and of length 1
QueryInputs ==
    {Vector("q", <<2, 0>>, QueryMeta), Vector("q", <<1>>, EmptyMeta)}

SeqsUpTo(S, n) == UNION {[1..m -> S] : m \in 0..n}

Distinct(s) == \A i, j \in 1..Len(s) : s[i] = s[j] => i = j

----------------------------------------------------------------------------
(* Arithmetic of normalize_L2 and of the inner product *)

Abs(x) == IF x < 0 THEN -x ELSE x

RECURSIVE Gcd(_, _)
Gcd(a, b) == IF b = 0 THEN a ELSE Gcd(b, a % b)

RECURSIVE SumTo(_, _)
SumTo(f, n) == IF n = 0 THEN 0 ELSE f[n] + SumTo(f, n - 1)

Dot(v, w) == SumTo([i \in 1..Len(v) |-> v[i] * w[i]], Len(v))

RECURSIVE GcdTo(_, _)
GcdTo(v, n) == IF n = 0 THEN 0 ELSE Gcd(Abs(v[n]), GcdTo(v, n - 1))

normalize_L2(v) ==
    IF Dot(v, v) = 0
    THEN [num |-> v, den2 |-> 1]
    ELSE LET g == GcdTo(v, Len(v))
             p == [i \in 1..Len(v) |-> v[i] \div g]
         IN  [num |-> p, den2 |-> Dot(p, p)]

InnerProduct(u, w) ==
    LET c == Dot(u.num, w.num)
        s == c * Abs(c)
        n == u.den2 * w.den2
        g == Gcd(Abs(s), n)
    IN  <<s \div g, n \div g>>

ScoreGT(a, b) == a[1] * b[2] > b[1] * a[2]

----------------------------------------------------------------------------
(* faiss.IndexFlatIP: a dimension d and the rows added so far *)

IndexFlatIP(d) == [d |-> d, rows |-> <<>>]

ntotal(ix) == Len(ix.rows)

IndexAdd(ix, xs) == [ix EXCEPT !.rows = @ \o xs]

IndexReset(ix) == [ix EXCEPT !.rows = <<>>]

RECURSIVE Keep(_, _, _)
Keep(s, drop, i) ==
    IF i > Len(s) THEN <<>>
    ELSE (IF drop[i] THEN <<>> ELSE <<s[i]>>) \o Keep(s, drop, i + 1)

\* remove_ids(x): the rows whose position is in x go, the others close up
IndexRemoveIds(ix, positions) ==
    [ix EXCEPT !.rows =
        Keep(@, [i \in 1..Len(@) |-> (i - 1) \in positions], 1)]

Sentinel == -1

SentinelScore == <<-2, 1>>

\* search(x, k): the k best rows by inner product, best first, a tie going to
\* the lower position; D and I are padded when k exceeds ntotal
IndexSearch(ix, x, k) ==
    LET n == ntotal(ix)
        sc == [i \in 1..n |-> InnerProduct(x, ix.rows[i])]
        beats(j, i) == ScoreGT(sc[j], sc[i]) \/ (sc[j] = sc[i] /\ j < i)
        rank(i) == Cardinality({j \in 1..n : beats(j, i)}) + 1
        at(r) == CHOOSE i \in 1..n : rank(i) = r
    IN  [D |-> [r \in 1..k |-> IF r <= n THEN sc[at(r)] ELSE SentinelScore],
         I |-> [r \in 1..k |-> IF r <= n THEN at(r) - 1 ELSE Sentinel]]

----------------------------------------------------------------------------
(* The registry: local_id and index are dictionaries keyed by namespace *)

Put(f, k, v) == [x \in DOMAIN f \cup {k} |-> IF x = k THEN v ELSE f[x]]

Outcome(L, X, e, r) == [local_id |-> L, index |-> X, error |-> e, result |-> r]

Range(s) == {s[i] : i \in 1..Len(s)}

IdsOf(records) == {records[i].id : i \in 1..Len(records)}

\* a __return_ids that does not compare the number found with len(ids)
return_ids_unchecked(records, ids) ==
    [error |-> "ok",
     positions |-> {i - 1 : i \in {j \in 1..Len(records) : records[j].id \in Range(ids)}}]

\* __return_ids: the positions of the records whose id is in ids, or the
\* error when their number is not len(ids)
return_ids(records, ids) ==
    LET found == {i \in 1..Len(records) : records[i].id \in Range(ids)}
    IN  IF Cardinality(found) # Len(ids)
        THEN [error |-> "NotFound", positions |-> {}]
        ELSE [error |-> "ok", positions |-> {i - 1 : i \in found}]

\* __remove_ids: the list without the records whose id is in ids, or the
\* error when the length of that list is not len(ids)
remove_ids(records, ids) ==
    LET new_list == Keep(records,
                         [i \in 1..Len(records) |-> records[i].id \in Range(ids)], 1)
    IN  IF Len(new_list) # Len(ids)
        THEN [error |-> "NotFound", records |-> records]
        ELSE [error |-> "ok", records |-> new_list]

\* a validation loop that holds only the first record to the dimension
RECURSIVE add_validate_first(_, _, _, _, _)
add_validate_first(records, X, namespace, vectors, i) ==
    IF i > Len(vectors) THEN "ok"
    ELSE IF vectors[i].id \in IdsOf(records) \cup IdsOf(SubSeq(vectors, 1, i - 1))
         THEN "DuplicateId"
    ELSE IF namespace \notin DOMAIN X THEN "KeyError"
    ELSE IF i = 1 /\ Len(vectors[i].embeddings) # X[namespace].d
         THEN "DimensionMismatch"
    ELSE add_validate_first(records, X, namespace, vectors, i + 1)

\* a validation loop that looks for the id among the stored records only
RECURSIVE add_validate_stored_only(_, _, _, _, _)
add_validate_stored_only(records, X, namespace, vectors, i) ==
    IF i > Len(vectors) THEN "ok"
    ELSE IF vectors[i].id \in IdsOf(records) THEN "DuplicateId"
    ELSE IF namespace \notin DOMAIN X THEN "KeyError"
    ELSE IF Len(vectors[i].embeddings) # X[namespace].d THEN "DimensionMismatch"
    ELSE add_validate_stored_only(records, X, namespace, vectors, i + 1)

\* the validation loop of add: per record, the id first and then the length
RECURSIVE add_validate(_, _, _, _, _)
add_validate(records, X, namespace, vectors, i) ==
    IF i > Len(vectors) THEN "ok"
    ELSE IF vectors[i].id \in IdsOf(records) \cup IdsOf(SubSeq(vectors, 1, i - 1))
         THEN "DuplicateId"
    ELSE IF namespace \notin DOMAIN X THEN "KeyError"
    ELSE IF Len(vectors[i].embeddings) # X[namespace].d THEN "DimensionMismatch"
    ELSE add_validate(records, X, namespace, vectors, i + 1)

\* the rows add hands to the index: a normalized copy of each embedding
data_to_add(vectors) ==
    [i \in 1..Len(vectors) |-> normalize_L2(vectors[i].embeddings)]

\* the namespace is registered before anything is validated
add_register(L, X, vectors, namespace) ==
    IF namespace \in DOMAIN L THEN Outcome(L, X, "ok", <<>>)
    ELSE IF vectors = <<>>
         THEN Outcome(Put(L, namespace, <<>>), X, "IndexError", <<>>)
         ELSE Outcome(Put(L, namespace, <<>>),
                      Put(X, namespace, IndexFlatIP(Len(vectors[1].embeddings))),
                      "ok", <<>>)

\* a store step that puts the batch in front of the list
add_store_front(L, X, vectors, namespace) ==
    Outcome(Put(L, namespace, vectors \o L[namespace]),
            Put(X, namespace, IndexAdd(X[namespace], data_to_add(vectors))),
            "ok", <<>>)

add_store(L, X, vectors, namespace) ==
    Outcome(Put(L, namespace, L[namespace] \o vectors),
            Put(X, namespace, IndexAdd(X[namespace], data_to_add(vectors))),
            "ok", <<>>)

\* add(vectors, namespace), lines 448-477
add(L, X, vectors, namespace) ==
    LET reg == add_register(L, X, vectors, namespace)
        L1 == reg.local_id
        X1 == reg.index
        v == add_validate(L1[namespace], X1, namespace, vectors, 1)
    IN  IF reg.error # "ok" THEN reg
        ELSE IF v # "ok" THEN Outcome(L1, X1, v, <<>>)
        ELSE IF namespace \notin DOMAIN X1 THEN Outcome(L1, X1, "KeyError", <<>>)
        ELSE IF vectors = <<>> THEN Outcome(L1, X1, "LibraryError", <<>>)
        ELSE add_store(L1, X1, vectors, namespace)

\* an optional argument: NoValue for Python's None, Some(x) for a value x
NoValue == <<>>

Some(x) == <<x>>

\* delete by ids: positions from the list, rows out of the index, then the list
delete_ids(L, X, ids, namespace, acceptsEmpty) ==
    LET pos == return_ids(L[namespace], ids)
        X1 == Put(X, namespace, IndexRemoveIds(X[namespace], pos.positions))
        rem == remove_ids(L[namespace], ids)
    IN  IF pos.error # "ok" THEN Outcome(L, X, pos.error, <<>>)
        ELSE IF namespace \notin DOMAIN X THEN Outcome(L, X, "KeyError", <<>>)
        ELSE IF ids = <<>> /\ ~acceptsEmpty THEN Outcome(L, X, "LibraryError", <<>>)
        ELSE IF rem.error # "ok" THEN Outcome(L, X1, rem.error, <<>>)
        ELSE Outcome(Put(L, namespace, rem.records), X1, "ok", <<>>)

delete_reset(L, X, namespace) ==
    IF namespace \notin DOMAIN X THEN Outcome(L, X, "KeyError", <<>>)
    ELSE Outcome(Put(L, namespace, <<>>),
                 Put(X, namespace, IndexReset(X[namespace])), "ok", <<>>)

\* delete testing its arguments before the namespace
delete_args_first(L, X, ids, delete_all, namespace, acceptsEmpty) ==
    IF ids = NoValue /\ ~delete_all THEN Outcome(L, X, "InvalidArgument", <<>>)
    ELSE IF namespace \notin DOMAIN L THEN Outcome(L, X, "NotFound", <<>>)
    ELSE IF ids # NoValue THEN delete_ids(L, X, ids[1], namespace, acceptsEmpty)
    ELSE delete_reset(L, X, namespace)

\* delete testing delete_all before ids
delete_all_first(L, X, ids, delete_all, namespace, acceptsEmpty) ==
    IF namespace \notin DOMAIN L THEN Outcome(L, X, "NotFound", <<>>)
    ELSE IF delete_all THEN delete_reset(L, X, namespace)
    ELSE IF ids # NoValue THEN delete_ids(L, X, ids[1], namespace, acceptsEmpty)
    ELSE Outcome(L, X, "InvalidArgument", <<>>)

\* delete(ids, delete_all, namespace), lines 501-512
delete(L, X, ids, delete_all, namespace, acceptsEmpty) ==
    IF namespace \notin DOMAIN L THEN Outcome(L, X, "NotFound", <<>>)
    ELSE IF ids # NoValue THEN delete_ids(L, X, ids[1], namespace, acceptsEmpty)
    ELSE IF delete_all THEN delete_reset(L, X, namespace)
    ELSE Outcome(L, X, "InvalidArgument", <<>>)

\* __return_vectors building a metadata of the score alone
RECURSIVE return_vectors_fresh(_, _, _, _, _)
return_vectors_fresh(records, ids, distance, i, out) ==
    IF i > Len(ids) THEN [error |-> "ok", records |-> records, result |-> out]
    ELSE IF ids[i] = Sentinel
         THEN return_vectors_fresh(records, ids, distance, i + 1, out)
    ELSE IF ids[i] + 1 > Len(records)
         THEN [error |-> "AttributeError", records |-> records, result |-> <<>>]
    ELSE LET vector_ == records[ids[i] + 1]
             metadata == [k \in {"score"} |-> distance[i]]
             new_vector == Vector(vector_.id, vector_.embeddings, metadata)
         IN  return_vectors_fresh([records EXCEPT ![ids[i] + 1] = new_vector],
                                  ids, distance, i + 1, Append(out, new_vector))

\* __return_vectors: for each position that is not the sentinel, the score goes
\* into the metadata of the stored record (the same dictionary object) and a
\* record with that metadata is returned; a position past the end of the list
\* stops the call, the scores written so far staying
RECURSIVE return_vectors(_, _, _, _, _)
return_vectors(records, ids, distance, i, out) ==
    IF i > Len(ids) THEN [error |-> "ok", records |-> records, result |-> out]
    ELSE IF ids[i] = Sentinel
         THEN return_vectors(records, ids, distance, i + 1, out)
    ELSE IF ids[i] + 1 > Len(records)
         THEN [error |-> "AttributeError", records |-> records, result |-> <<>>]
    ELSE LET vector_ == records[ids[i] + 1]
             metadata == [k \in DOMAIN vector_.metadata \cup {"score"} |->
                             IF k = "score" THEN distance[i]
                             ELSE vector_.metadata[k]]
             new_vector == Vector(vector_.id, vector_.embeddings, metadata)
         IN  return_vectors([records EXCEPT ![ids[i] + 1] = new_vector],
                            ids, distance, i + 1, Append(out, new_vector))

search_vector(L, X, vector, top_k, namespace) ==
    LET found == IndexSearch(X[namespace], normalize_L2(vector.embeddings), top_k)
        got == return_vectors(L[namespace], found.I, found.D, 1, <<>>)
    IN  IF Len(vector.embeddings) # X[namespace].d
        THEN Outcome(L, X, "LibraryError", <<>>)
        ELSE Outcome(Put(L, namespace, got.records), X, got.error, got.result)

\* the call __return_embeddings(ids=[id], namespace=namespace): the method has
\* no parameter ids, so the call raises before the method body runs
search_id(L, X, id, top_k, namespace) == Outcome(L, X, "TypeError", <<>>)

\* search as its docstring has it, raising for a namespace that does not exist
search_known_only(L, X, vector, id, top_k, namespace) ==
    IF namespace \notin DOMAIN L THEN Outcome(L, X, "NotFound", <<>>)
    ELSE IF namespace \notin DOMAIN X THEN Outcome(L, X, "KeyError", <<>>)
    ELSE IF ntotal(X[namespace]) > 0
         THEN IF vector # NoValue
              THEN search_vector(L, X, vector[1], top_k, namespace)
              ELSE IF id # NoValue /\ id # Some("")
                   THEN search_id(L, X, id[1], top_k, namespace)
                   ELSE Outcome(L, X, "InvalidArgument", <<>>)
         ELSE Outcome(L, X, "ok", <<>>)

\* search without the test ntotal > 0
search_empty_unchecked(L, X, vector, id, top_k, namespace) ==
    IF namespace \notin DOMAIN L THEN Outcome(L, X, "ok", <<>>)
    ELSE IF namespace \notin DOMAIN X THEN Outcome(L, X, "KeyError", <<>>)
    ELSE IF vector # NoValue
         THEN search_vector(L, X, vector[1], top_k, namespace)
         ELSE IF id # NoValue /\ id # Some("")
              THEN search_id(L, X, id[1], top_k, namespace)
              ELSE Outcome(L, X, "InvalidArgument", <<>>)

\* search with the id tested before the vector
search_id_first(L, X, vector, id, top_k, namespace) ==
    IF namespace \notin DOMAIN L THEN Outcome(L, X, "ok", <<>>)
    ELSE IF namespace \notin DOMAIN X THEN Outcome(L, X, "KeyError", <<>>)
    ELSE IF ntotal(X[namespace]) > 0
         THEN IF id # NoValue /\ id # Some("")
              THEN search_id(L, X, id[1], top_k, namespace)
              ELSE IF vector # NoValue
                   THEN search_vector(L, X, vector[1], top_k, namespace)
                   ELSE Outcome(L, X, "InvalidArgument", <<>>)
         ELSE Outcome(L, X, "ok", <<>>)

\* search(vector, id, top_k, namespace), lines 542-573
search(L, X, vector, id, top_k, namespace) ==
    IF namespace \notin DOMAIN L THEN Outcome(L, X, "ok", <<>>)
    ELSE IF namespace \notin DOMAIN X THEN Outcome(L, X, "KeyError", <<>>)
    ELSE IF ntotal(X[namespace]) > 0
         THEN IF vector # NoValue
              THEN search_vector(L, X, vector[1], top_k, namespace)
              ELSE IF id # NoValue /\ id # Some("")
                   THEN search_id(L, X, id[1], top_k, namespace)
                   ELSE Outcome(L, X, "InvalidArgument", <<>>)
         ELSE Outcome(L, X, "ok", <<>>)

----------------------------------------------------------------------------
(* Persistence: the directory save_local writes and load_local reads.  disk
   says whether the directory exists and what each of its files holds. *)

NoFiles == [n \in {} |-> 0]

NoDirectory == [isdir |-> FALSE, files |-> NoFiles]

\* 'index' for the default namespace, '<namespace>_index' for another
FileName(namespace, ext) ==
    IF namespace = None THEN "index" \o ext ELSE namespace \o "_index" \o ext

\* the components of the rows, one row after the other
RECURSIVE Flatten(_)
Flatten(rows) ==
    IF rows = <<>> THEN <<>>
    ELSE [j \in 1..Len(Head(rows).num) |-> <<Head(rows).num[j], Head(rows).den2>>]
             \o Flatten(Tail(rows))

\* faiss.write_index: the dimension, the number of rows and the rows' data
write_index(ix) ==
    [kind |-> "faiss", d |-> ix.d, ntotal |-> ntotal(ix), codes |-> Flatten(ix.rows)]

\* faiss.read_index: ntotal rows of d components each, cut from the data
read_index(blob) ==
    [d |-> blob.d,
     rows |-> [i \in 1..blob.ntotal |->
                 LET at(j) == blob.codes[(i - 1) * blob.d + j]
                 IN  [num |-> [j \in 1..blob.d |-> at(j)[1]], den2 |-> at(1)[2]]]]

\* pickle.dump and pickle.load of a list of Vector objects
pickle_dump(records) == [kind |-> "pickle", objects |-> records]

pickle_load(blob) == blob.objects

\* a file whose bytes neither read_index nor pickle.load can parse
Damaged == [kind |-> "damaged"]

Readable(files, name, kind) == name \in DOMAIN files /\ files[name].kind = kind

\* the files of namespace written over those of the directory
WriteFiles(files, L, X, namespace) ==
    LET faiss == FileName(namespace, ".faiss")
        pkl == FileName(namespace, ".pkl")
    IN  [n \in DOMAIN files \cup {faiss, pkl} |->
            IF n = faiss THEN write_index(X[namespace])
            ELSE IF n = pkl THEN pickle_dump(L[namespace])
            ELSE files[n]]

RECURSIVE WriteAll(_, _, _, _)
WriteAll(files, L, X, keys) ==
    IF keys = {} THEN files
    ELSE LET k == CHOOSE x \in keys : TRUE
         IN  WriteAll(WriteFiles(files, L, X, k), L, X, keys \ {k})

Saved(D, e) == [error |-> e, disk |-> D]

\* save_local(dir_path, namespace, save_all): the directory is made first; in
\* the branch of one namespace the name of the .faiss file is built from
\* namespace_, a variable only the save_all loop assigns
save_local(L, X, D, namespace, save_all) ==
    LET D1 == [D EXCEPT !.isdir = TRUE]
    IN  IF save_all
        THEN Saved([D1 EXCEPT !.files = WriteAll(D1.files, L, X, DOMAIN X)], "ok")
        ELSE IF namespace \notin DOMAIN L THEN Saved(D1, "NotFound")
        ELSE IF namespace \notin DOMAIN X THEN Saved(D1, "KeyError")
        ELSE IF namespace # None THEN Saved(D1, "UnboundLocalError")
        ELSE Saved([D1 EXCEPT !.files = WriteFiles(D1.files, L, X, namespace)], "ok")

\* the objects a store built from supplied maps holds under a key: what the
\* caller put there, a list or an IndexFlatIP
ListObject(records) == [kind |-> "list", value |-> records]

IndexObject(ix) == [kind |-> "IndexFlatIP", value |-> ix]

NoMaps == [k \in {} |-> 0]

Built(L, X, e, n) ==
    [error |-> e, named |-> n, store |-> [local_id |-> L, index |-> X]]

\* __init__(local_id, index, d): both maps adopted when both are truthy, the
\* default namespace alone when both are None, ValueError otherwise
init(local_id_, index_, d) ==
    IF /\ local_id_ # NoValue /\ DOMAIN local_id_[1] # {}
       /\ index_ # NoValue /\ DOMAIN index_[1] # {}
    THEN Built(local_id_[1], index_[1], "ok", NoValue)
    ELSE IF local_id_ = NoValue /\ index_ = NoValue
         THEN Built((None :> ListObject(<<>>)), (None :> IndexObject(IndexFlatIP(d))),
                    "ok", NoValue)
         ELSE Built(NoMaps, NoMaps, "InvalidArgument", NoValue)

\* a loop that passes over a namespace whose files cannot be read
RECURSIVE load_loop_passing(_, _, _, _, _)
load_loop_passing(files, namespaces, i, local_id_, index_) ==
    IF i > Len(namespaces) THEN Built(local_id_, index_, "ok", NoValue)
    ELSE LET namespace == namespaces[i]
             faiss == FileName(namespace, ".faiss")
             pkl == FileName(namespace, ".pkl")
         IN  IF ~Readable(files, faiss, "faiss") \/ ~Readable(files, pkl, "pickle")
             THEN load_loop_passing(files, namespaces, i + 1, local_id_, index_)
             ELSE load_loop_passing(files, namespaces, i + 1,
                                    Put(local_id_, namespace,
                                        ListObject(pickle_load(files[pkl]))),
                                    Put(index_, namespace,
                                        IndexObject(read_index(files[faiss]))))

\* the loop of load_local: each namespace's .faiss and .pkl are read in the
\* order of the list; the first that cannot be read ends the load with a
\* RuntimeError naming the namespace
RECURSIVE load_loop(_, _, _, _, _)
load_loop(files, namespaces, i, local_id_, index_) ==
    IF i > Len(namespaces) THEN Built(local_id_, index_, "ok", NoValue)
    ELSE LET namespace == namespaces[i]
             faiss == FileName(namespace, ".faiss")
             pkl == FileName(namespace, ".pkl")
         IN  IF ~Readable(files, faiss, "faiss") \/ ~Readable(files, pkl, "pickle")
             THEN Built(NoMaps, NoMaps, "RuntimeError", Some(namespace))
             ELSE load_loop(files, namespaces, i + 1,
                            Put(local_id_, namespace,
                                ListObject(pickle_load(files[pkl]))),
                            Put(index_, namespace,
                                IndexObject(read_index(files[faiss]))))

\* load_local(namespaces, dir_path, d): when the default namespace was not
\* loaded, index_[None] = [] and local_id_[None] = IndexFlatIP(d), then
\* cls(local_id_, index_)
load_local(D, namespaces, d) ==
    LET got == load_loop(D.files, namespaces, 1, NoMaps, NoMaps)
        L == got.store.local_id
        X == got.store.index
    IN  IF ~D.isdir THEN Built(NoMaps, NoMaps, "NotADirectory", NoValue)
        ELSE IF got.error # "ok" THEN got
        ELSE IF None \notin DOMAIN X
             THEN init(Some(Put(L, None, IndexObject(IndexFlatIP(d)))),
                       Some(Put(X, None, ListObject(<<>>))), d)
             ELSE init(Some(L), Some(X), d)

----------------------------------------------------------------------------
(* The store as a state machine: one action per call; last is the call just
   made with its outcome, pre the registry as it was before that call *)

Registry(L, X) == [local_id |-> L, index |-> X]

Call(op, namespace, vectors, ids, delete_all, vector, id, top_k, out) ==
    [op |-> op, namespace |-> namespace, vectors |-> vectors, ids |-> ids,
     delete_all |-> delete_all, vector |-> vector, id |-> id, top_k |-> top_k,
     error |-> out.error, result |-> out.result]

Idle == [op |-> "idle"]

\* __init__ with neither map: the default namespace alone, of dimension d
Init ==
    \E d \in Dims :
        /\ local_id = (None :> <<>>)
        /\ index = (None :> IndexFlatIP(d))
        /\ pre = Registry(local_id, index)
        /\ last = Idle
        /\ disk = NoDirectory

RECURSIVE Total(_, _)
Total(L, keys) ==
    IF keys = {} THEN 0
    ELSE LET k == CHOOSE x \in keys : TRUE
         IN  Len(L[k]) + Total(L, keys \ {k})

Min(a, b) == IF a < b THEN a ELSE b

\* add(vectors, namespace); the explored batches fit the room left in the store
Add ==
    /\ last.op = "idle"
    /\ \E namespace \in NamespaceKeys :
        \E vectors \in SeqsUpTo(VectorInputs,
                Min(MaxBatch, MaxLen - Total(local_id, DOMAIN local_id))) :
            LET out == add(local_id, index, vectors, namespace)
            IN  /\ local_id' = out.local_id
                /\ index' = out.index
                /\ last' = Call("add", namespace, vectors, NoValue, FALSE,
                                NoValue, NoValue, 1, out)
    /\ pre' = Registry(local_id, index)
    /\ UNCHANGED disk

\* the ids lists explored: None, and the lists of distinct ids
IdsInputs ==
    {NoValue} \cup {Some(s) : s \in {t \in SeqsUpTo(Ids, MaxIds) : Distinct(t)}}

\* delete(ids, delete_all, namespace); whether the library takes an empty
\* array of positions depends on its version
Delete ==
    /\ last.op = "idle"
    /\ \E namespace \in NamespaceKeys, ids \in IdsInputs, delete_all \in BOOLEAN :
        \E acceptsEmpty \in IF ids = Some(<<>>) THEN BOOLEAN ELSE {TRUE} :
            LET out == delete(local_id, index, ids, delete_all, namespace,
                              acceptsEmpty)
            IN  /\ local_id' = out.local_id
                /\ index' = out.index
                /\ last' = Call("delete", namespace, <<>>, ids, delete_all,
                                NoValue, NoValue, 1, out)
    /\ pre' = Registry(local_id, index)
    /\ UNCHANGED disk

\* search(vector, id, top_k, namespace)
Search ==
    /\ last.op = "idle"
    /\ \E namespace \in NamespaceKeys,
          vector \in {NoValue} \cup {Some(v) : v \in QueryInputs},
          id \in {NoValue, Some("a"), Some("")},
          top_k \in 1..MaxK :
        LET out == search(local_id, index, vector, id, top_k, namespace)
        IN  /\ local_id' = out.local_id
            /\ index' = out.index
            /\ last' = Call("search", namespace, <<>>, NoValue, FALSE,
                            vector, id, top_k, out)
    /\ pre' = Registry(local_id, index)
    /\ UNCHANGED disk

\* the caller takes the outcome of its call and is ready for the next one
Return ==
    /\ last.op # "idle"
    /\ last' = Idle
    /\ pre' = Registry(local_id, index)
    /\ UNCHANGED <<local_id, index, disk>>

Next == Add \/ Delete \/ Search \/ Return

Spec == Init /\ [][Next]_vars

----------------------------------------------------------------------------
(* A caller that keeps its Vector objects.  add stores the very objects it is
   given (local_id[namespace] += vectors) and search writes the score into
   the metadata of the stored object, so a Vector object submitted to two
   add calls is one object held by two lists.  An object is told here by its
   id and embeddings: the caller has one object for each of VectorInputs. *)

SameObject(r, v) == r.id = v.id /\ r.embeddings = v.embeddings

\* the caller's object for v as it is now: the one the lists already hold,
\* with the metadata it has come to carry, or v as built
Held(L, v) ==
    LET holders == {r \in UNION {Range(L[k]) : k \in DOMAIN L} : SameObject(r, v)}
    IN  IF holders = {} THEN v ELSE CHOOSE r \in holders : TRUE

\* what every list shows once the objects of namespace's list were written to
Written(L, namespace) ==
    IF namespace \notin DOMAIN L THEN L
    ELSE [k \in DOMAIN L |->
            [i \in 1..Len(L[k]) |->
                LET same == {r \in Range(L[namespace]) : SameObject(r, L[k][i])}
                IN  IF same = {} THEN L[k][i] ELSE CHOOSE r \in same : TRUE]]

\* add(vectors, namespace) of objects the caller kept
AddShared ==
    /\ last.op = "idle"
    /\ \E namespace \in NamespaceKeys :
        \E vectors \in SeqsUpTo(VectorInputs,
                                Min(MaxBatch, MaxLen - Total(local_id, DOMAIN local_id))) :
            LET objects == [i \in 1..Len(vectors) |-> Held(local_id, vectors[i])]
                out == add(local_id, index, objects, namespace)
            IN  /\ local_id' = out.local_id
                /\ index' = out.index
                /\ last' = Call("add", namespace, objects, NoValue, FALSE,
                                NoValue, NoValue, 1, out)
    /\ pre' = Registry(local_id, index)
    /\ UNCHANGED disk

\* search(vector, top_k, namespace) over lists that share objects
SearchShared ==
    /\ last.op = "idle"
    /\ \E namespace \in NamespaceKeys,
          vector \in {Some(v) : v \in QueryInputs},
          top_k \in 1..MaxK :
        LET out == search(local_id, index, vector, NoValue, top_k, namespace)
        IN  /\ local_id' = Written(out.local_id, namespace)
            /\ index' = out.index
            /\ last' = Call("search", namespace, <<>>, NoValue, FALSE,
                            vector, NoValue, top_k, out)
    /\ pre' = Registry(local_id, index)
    /\ UNCHANGED disk

NextShared == AddShared \/ SearchShared \/ Return

SpecShared == Init /\ [][NextShared]_vars

----------------------------------------------------------------------------
(* The store and its directory: the caller builds a store with add and
   delete, saves it and loads stores from the directory, while files of the
   directory may get lost or damaged.  load_local is a class method: it
   returns a new store, kept in last.store, and leaves this one alone. *)

LoadDims == {1, 2}

\* save_local(namespace, save_all)
Save ==
    /\ last.op = "idle"
    /\ \E namespace \in NamespaceKeys, save_all \in BOOLEAN :
        LET out == save_local(local_id, index, disk, namespace, save_all)
        IN  /\ disk' = out.disk
            /\ last' = [op |-> "save_local", namespace |-> namespace,
                        save_all |-> save_all, error |-> out.error,
                        before |-> disk]
    /\ pre' = Registry(local_id, index)
    /\ UNCHANGED <<local_id, index>>

\* load_local(namespaces, d)
Load ==
    /\ last.op = "idle"
    /\ \E namespaces \in SeqsUpTo(NamespaceKeys, MaxNamespaces), d \in LoadDims :
        LET out == load_local(disk, namespaces, d)
        IN  last' = [op |-> "load_local", namespaces |-> namespaces, d |-> d,
                     error |-> out.error, named |-> out.named,
                     store |-> out.store]
    /\ pre' = Registry(local_id, index)
    /\ UNCHANGED <<local_id, index, disk>>

\* every file is readable and every namespace has both its files or neither
Intact(files) ==
    /\ \A n \in DOMAIN files : files[n].kind # "damaged"
    /\ \A k \in NamespaceKeys :
           FileName(k, ".faiss") \in DOMAIN files
               <=> FileName(k, ".pkl") \in DOMAIN files

\* a file of the directory is removed
Lose ==
    /\ last.op = "idle"
    /\ Intact(disk.files)
    /\ \E gone \in DOMAIN disk.files :
           disk' = [disk EXCEPT !.files = [n \in DOMAIN disk.files \ {gone} |->
                                               disk.files[n]]]
    /\ UNCHANGED <<local_id, index, last, pre>>

\* a file of the directory is overwritten with bytes that do not parse
Damage ==
    /\ last.op = "idle"
    /\ Intact(disk.files)
    /\ \E hit \in DOMAIN disk.files :
           disk' = [disk EXCEPT !.files[hit] = Damaged]
    /\ UNCHANGED <<local_id, index, last, pre>>

\* the store is built before anything is saved
Build == DOMAIN disk.files = {} /\ (Add \/ Delete)

NextPersist == Build \/ Save \/ Load \/ Lose \/ Damage \/ Return

SpecPersist == Init /\ [][NextPersist]_vars

----------------------------------------------------------------------------
(* The constructor called with maps of the caller's choice: each of the two
   maps is left out, empty, or holds lists (indexes) under some namespace
   keys.  The store it builds is kept in last.store. *)

MapsOver(objects) == UNION {[S -> objects] : S \in SUBSET NamespaceKeys}

\* what a caller passes as local_id: nothing, or a map of record lists
LocalIdInputs ==
    {NoValue} \cup
    {Some(m) : m \in MapsOver({ListObject(<<>>),
                               ListObject(<<Vector("a", <<2, 0>>, EmptyMeta)>>)})}

\* what a caller passes as index: nothing, or a map of indexes
IndexInputs ==
    {NoValue} \cup
    {Some(m) : m \in MapsOver({IndexObject(IndexFlatIP(d)) : d \in LoadDims})}

\* FAISSVectorStore(local_id, index, d)
Construct ==
    /\ last.op = "idle"
    /\ \E local_id_ \in LocalIdInputs, index_ \in IndexInputs, d \in LoadDims :
        LET out == init(local_id_, index_, d)
        IN  last' = [op |-> "__init__", local_id |-> local_id_,
                     index |-> index_, d |-> d,
                     error |-> out.error, store |-> out.store]
    /\ pre' = Registry(local_id, index)
    /\ UNCHANGED <<local_id, index, disk>>

NextInit == Construct \/ Return

SpecInit == Init /\ [][NextInit]_vars

----------------------------------------------------------------------------
(* Vocabulary of the properties *)

RecordsOf(L, namespace) == IF namespace \in DOMAIN L THEN L[namespace] ELSE <<>>

RowsOf(X, namespace) == IF namespace \in DOMAIN X THEN X[namespace].rows ELSE <<>>

Without(s, gone) == Keep(s, [i \in 1..Len(s) |-> gone[i]], 1)

IsDelete == last.op = "delete"

IsAdd == last.op = "add"

Unchanged == local_id = pre.local_id /\ index = pre.index

\* the ids a delete call was given, when it was given a list
DeleteIdsGiven == IsDelete /\ last.ids # NoValue

\* a batch with two records of one id, or a record whose id is already stored
HasDuplicate(vectors, stored) ==
    \E i \in 1..Len(vectors) :
        \/ vectors[i].id \in IdsOf(stored)
        \/ \E j \in 1..Len(vectors) : j # i /\ vectors[j].id = vectors[i].id

----------------------------------------------------------------------------
(* C1: in every reachable state, every namespace's record list is as long as
   its FlatIndex has rows. *)
C1_LengthIsRowCount ==
    \A namespace \in DOMAIN local_id \cap DOMAIN index :
        Len(local_id[namespace]) = ntotal(index[namespace])

(* C2: in every reachable state, row i of a namespace's FlatIndex is the
   normalized embedding of the record at position i of its record list. *)
C2_RowIsRecordAtPosition ==
    \A namespace \in DOMAIN local_id \cap DOMAIN index :
        \A i \in 1..ntotal(index[namespace]) :
            /\ i <= Len(local_id[namespace])
            /\ index[namespace].rows[i]
                   = normalize_L2(local_id[namespace][i].embeddings)

(* C3: delete(ids=S, namespace=N), N registered and S a non-empty list of
   distinct ids all stored in N, succeeds, and leaves N's record list and
   FlatIndex rows as they were less the positions of the records in S. *)
C3_DeletePresentIdsSucceeds ==
    (/\ DeleteIdsGiven
     /\ last.namespace \in DOMAIN pre.local_id \cap DOMAIN pre.index
     /\ last.ids[1] # <<>>
     /\ Distinct(last.ids[1])
     /\ Range(last.ids[1]) \subseteq IdsOf(pre.local_id[last.namespace]))
    => LET N == last.namespace
           was == pre.local_id[N]
           gone == [i \in 1..Len(was) |-> was[i].id \in Range(last.ids[1])]
       IN  /\ last.error = "ok"
           /\ local_id[N] = Without(was, gone)
           /\ Len(pre.index[N].rows) = Len(was)
                  => index[N].rows = Without(pre.index[N].rows, gone)

(* C4: a delete call that ends in an error leaves every namespace's record
   list and FlatIndex as they were before the call. *)
C4_FailedDeleteChangesNothing ==
    (IsDelete /\ last.error # "ok") => Unchanged

(* C5: delete(ids=S) with an id in S that is not stored in the target
   namespace fails with NotFound and leaves every record list and FlatIndex
   as it was. *)
C5_DeleteAbsentIdDeletesNothing ==
    (/\ DeleteIdsGiven
     /\ \E x \in Range(last.ids[1]) :
            x \notin IdsOf(RecordsOf(pre.local_id, last.namespace)))
    => (last.error = "NotFound" /\ Unchanged)

\* Scenario C: "a" and "b" stored, delete of "a" and of an id that is not
C5_Witness ==
    /\ DeleteIdsGiven
    /\ last.namespace = None
    /\ IdsOf(pre.local_id[None]) = {"a", "b"}
    /\ last.ids = Some(<<"a", "">>)
    /\ last.error = "NotFound"
    /\ IdsOf(local_id[None]) = {"a", "b"}
    /\ ntotal(index[None]) = 2

(* C6: add of a batch in which two records share an id, or a record has an
   id already stored in the target namespace, raises DuplicateId and leaves
   that namespace's record list and FlatIndex as they were, wherever in the
   batch the offending record is. *)
C6_DuplicateIdRejected ==
    (IsAdd /\ HasDuplicate(last.vectors, RecordsOf(pre.local_id, last.namespace)))
    => /\ last.error = "DuplicateId"
       /\ (last.namespace \in DOMAIN local_id) = (last.namespace \in DOMAIN pre.local_id)
       /\ (last.namespace \in DOMAIN index) = (last.namespace \in DOMAIN pre.index)
       /\ RecordsOf(local_id, last.namespace) = RecordsOf(pre.local_id, last.namespace)
       /\ RowsOf(index, last.namespace) = RowsOf(pre.index, last.namespace)

(* C7: an add call that fails validation (duplicate id, dimension mismatch,
   missing id) leaves the registry as it was: the same namespace keys, and
   every record list and FlatIndex unchanged. *)
C7_FailedAddChangesNothing ==
    (IsAdd /\ last.error \in {"DuplicateId", "DimensionMismatch", "InvalidArgument"})
    => Unchanged

\* the dimension add holds the batch to: that of the namespace's FlatIndex, or
\* for a namespace not yet registered the length of the first embedding
TargetDims(namespace, vectors) ==
    IF namespace \in DOMAIN pre.index THEN {pre.index[namespace].d}
    ELSE IF namespace \notin DOMAIN pre.local_id /\ vectors # <<>>
         THEN {Len(vectors[1].embeddings)}
         ELSE {}

WrongLength(namespace, vectors) ==
    \E d \in TargetDims(namespace, vectors) :
        \E i \in 1..Len(vectors) : Len(vectors[i].embeddings) # d

NothingAdded ==
    /\ RecordsOf(local_id, last.namespace) = RecordsOf(pre.local_id, last.namespace)
    /\ RowsOf(index, last.namespace) = RowsOf(pre.index, last.namespace)

(* C8, as stated: add of a batch in which some record's embedding length
   differs from the target namespace's dimension fails with
   DimensionMismatch and adds no row and no record. *)
C8_WrongLengthRejected ==
    (IsAdd /\ WrongLength(last.namespace, last.vectors))
    => (last.error = "DimensionMismatch" /\ NothingAdded)

(* C8, amended: add of a batch in which some record's embedding length
   differs from the target namespace's dimension, and in which no record has
   a duplicate id, fails with DimensionMismatch and adds no row and no
   record, also when records earlier in the batch are valid. *)
C8_WrongLengthRejectedUnlessDuplicate ==
    (/\ IsAdd
     /\ WrongLength(last.namespace, last.vectors)
     /\ ~HasDuplicate(last.vectors, RecordsOf(pre.local_id, last.namespace)))
    => (last.error = "DimensionMismatch" /\ NothingAdded)

\* a batch of a valid record followed by one that is too short
C8_Witness ==
    /\ IsAdd
    /\ last.namespace = None
    /\ Len(last.vectors) = 2
    /\ last.vectors[1] = Vector("b", <<0, 1>>, StoredMeta)
    /\ Len(last.vectors[Len(last.vectors)].embeddings) # pre.index[None].d
    /\ last.error = "DimensionMismatch"
    /\ NothingAdded

(* C9: add of a batch with a record whose id is empty is rejected with
   InvalidArgument and stores nothing, so no stored record has an empty
   id. *)
C9_EmptyIdRejected ==
    /\ (IsAdd /\ "" \in IdsOf(last.vectors))
           => (last.error = "InvalidArgument" /\ NothingAdded)
    /\ \A namespace \in DOMAIN local_id : "" \notin IdsOf(local_id[namespace])

(* C10: a successful add of n records appends them, in call order, at the
   end of the namespace's record list, and their n normalized rows at the end
   of its FlatIndex; the records and rows stored before keep their
   positions. *)
C10_AddAppends ==
    (IsAdd /\ last.error = "ok")
    => LET N == last.namespace
           n == Len(last.vectors)
           was == RecordsOf(pre.local_id, N)
           rows == RowsOf(pre.index, N)
       IN  /\ Len(local_id[N]) = Len(was) + n
           /\ SubSeq(local_id[N], 1, Len(was)) = was
           /\ \A i \in 1..n : local_id[N][Len(was) + i] = last.vectors[i]
           /\ Len(index[N].rows) = Len(rows) + n
           /\ SubSeq(index[N].rows, 1, Len(rows)) = rows
           /\ \A i \in 1..n :
                  index[N].rows[Len(rows) + i]
                      = normalize_L2(last.vectors[i].embeddings)

\* a record added after another: the earlier one stays first
C10_Witness ==
    /\ IsAdd
    /\ last.error = "ok"
    /\ Len(last.vectors) >= 1
    /\ Len(RecordsOf(pre.local_id, last.namespace)) >= 1
    /\ RowsOf(pre.index, last.namespace) # <<>>

----------------------------------------------------------------------------
(* Vocabulary of the search properties *)

IsSearch == last.op = "search"

\* a search that was given a query vector, and the one given only an id
VectorGiven == IsSearch /\ last.vector # NoValue

IdOnlyGiven == IsSearch /\ last.vector = NoValue /\ last.id # NoValue

\* the query's length is the dimension of the searched namespace
QueryFits ==
    /\ last.namespace \in DOMAIN pre.index
    /\ Len(last.vector[1].embeddings) = pre.index[last.namespace].d

\* the cosine of a query and a stored record, from their embeddings
Similarity(q, r) ==
    InnerProduct(normalize_L2(q.embeddings), normalize_L2(r.embeddings))

\* the list position holding the r-th most similar record, ties going to the
\* lower position
Ranked(records, q, r) ==
    LET before(j, i) ==
            \/ ScoreGT(Similarity(q, records[j]), Similarity(q, records[i]))
            \/ Similarity(q, records[j]) = Similarity(q, records[i]) /\ j < i
    IN  CHOOSE i \in 1..Len(records) :
            Cardinality({j \in 1..Len(records) : before(j, i)}) + 1 = r

(* C11: search by a vector q with top_k = k on a namespace holding n >= 1
   records returns exactly min(k, n) records: distinct records of that
   namespace, the most similar to q, in non-increasing order of score with
   ties going to the lower position, each carrying that score. *)
C11_SearchReturnsTopK ==
    (/\ VectorGiven
     /\ QueryFits
     /\ Len(RecordsOf(pre.local_id, last.namespace)) >= 1)
    => LET records == pre.local_id[last.namespace]
           q == last.vector[1]
       IN  /\ last.error = "ok"
           /\ Len(last.result) = Min(last.top_k, Len(records))
           /\ Distinct([r \in 1..Len(last.result) |-> last.result[r].id])
           /\ \A r \in 1..Len(last.result) :
                  LET stored == records[Ranked(records, q, r)]
                  IN  /\ last.result[r].id = stored.id
                      /\ last.result[r].embeddings = stored.embeddings
                      /\ last.result[r].metadata["score"] = Similarity(q, stored)

\* the record stored under id x in a record list
StoredUnder(records, x) ==
    records[CHOOSE i \in 1..Len(records) : records[i].id = x]

(* C12: search by an id x alone, x stored in a namespace that is not empty,
   completes without error and returns what search by the vector of the
   record stored under x returns. *)
C12_SearchByIdIsSearchByItsVector ==
    (/\ IdOnlyGiven
     /\ last.id[1] \in IdsOf(RecordsOf(pre.local_id, last.namespace))
     /\ RowsOf(pre.index, last.namespace) # <<>>)
    => LET r == StoredUnder(pre.local_id[last.namespace], last.id[1])
           byVector == search(pre.local_id, pre.index, Some(r), NoValue,
                              last.top_k, last.namespace)
       IN  /\ last.error = "ok"
           /\ last.result = byVector.result

\* the metadata of the query laid under the metadata of a stored record, with
\* the score set
Merged(query, stored, score) ==
    [k \in DOMAIN query \cup DOMAIN stored \cup {"score"} |->
        IF k = "score" THEN score
        ELSE IF k \in DOMAIN stored THEN stored[k]
        ELSE query[k]]

(* C13: each record returned by a search by vector carries the query's
   metadata as a base, overlaid by the metadata the matched record had
   stored, with the key score set; so a key only the query carries appears
   in every result. *)
C13_ResultMetadataIsMerged ==
    (VectorGiven /\ last.error = "ok")
    => \A r \in 1..Len(last.result) :
           LET stored == StoredUnder(pre.local_id[last.namespace],
                                     last.result[r].id)
           IN  last.result[r].metadata
                   = Merged(last.vector[1].metadata, stored.metadata,
                            last.result[r].metadata["score"])

(* C14: search on a namespace key that is not in the registry returns the
   empty list without raising, whatever vector and id it is given, and
   leaves the registry as it was: the namespace is not created. *)
C14_SearchUnknownNamespaceIsEmpty ==
    (IsSearch /\ last.namespace \notin DOMAIN pre.local_id)
    => /\ last.error = "ok"
       /\ last.result = <<>>
       /\ Unchanged
       /\ last.namespace \notin DOMAIN local_id \cup DOMAIN index

\* a search with neither vector nor id on a namespace that was never created
C14_Witness ==
    /\ IsSearch
    /\ last.namespace \notin DOMAIN pre.local_id
    /\ last.vector = NoValue
    /\ last.id = NoValue
    /\ last.error = "ok"
    /\ \E k \in DOMAIN pre.index : pre.index[k].rows # <<>>

\* the searched namespace is in the registry with a FlatIndex of its own
SearchesExisting ==
    /\ IsSearch
    /\ last.namespace \in DOMAIN pre.local_id
    /\ last.namespace \in DOMAIN pre.index

(* C15: search on an existing namespace whose FlatIndex has 0 rows returns
   the empty list without raising and changes nothing, whether it is given a
   vector, an id (stored or not), both or neither; on a namespace with at
   least one row, search with neither a vector nor an id fails with
   InvalidArgument. *)
C15_SearchEmptyIndexIsEmpty ==
    SearchesExisting
    => /\ pre.index[last.namespace].rows = <<>>
          => (last.error = "ok" /\ last.result = <<>> /\ Unchanged)
       /\ (/\ pre.index[last.namespace].rows # <<>>
           /\ last.vector = NoValue
           /\ last.id = NoValue)
          => (last.error = "InvalidArgument" /\ Unchanged)

\* a search by an id alone on a namespace with no record and no row
C15_Witness ==
    /\ SearchesExisting
    /\ pre.index[last.namespace].rows = <<>>
    /\ pre.local_id[last.namespace] = <<>>
    /\ last.vector = NoValue
    /\ last.id = Some("a")
    /\ last.error = "ok"

(* C16: when search is given both a vector and an id, its outcome is that of
   the same search given the vector alone, for every id, stored or not: the
   id is not looked up. *)
C16_VectorHasPriority ==
    (VectorGiven /\ last.id # NoValue)
    => LET alone == search(pre.local_id, pre.index, last.vector, NoValue,
                           last.top_k, last.namespace)
       IN  /\ last.error = alone.error
           /\ last.result = alone.result
           /\ local_id = alone.local_id
           /\ index = alone.index

\* a search with a vector and an id that is not stored, returning a record
C16_Witness ==
    /\ VectorGiven
    /\ last.id = Some("a")
    /\ "a" \notin IdsOf(RecordsOf(pre.local_id, last.namespace))
    /\ last.error = "ok"
    /\ last.result # <<>>

\* metadata new is metadata old with nothing but the key score set
OnlyScoreSet(old, new) ==
    /\ DOMAIN new = DOMAIN old \cup {"score"}
    /\ \A k \in DOMAIN old \ {"score"} : new[k] = old[k]

(* C17: a search call changes nothing but the score entry in the metadata of
   the records it returns, all of the searched namespace: the set of
   namespaces, every record list's length, order, ids and embeddings, and
   every FlatIndex are as before, and after the call each returned record is
   a stored record of the namespace carrying the returned score.  (A record
   is the stored object: a list of another namespace that holds the same
   object shows the same score.) *)
C17_SearchWritesOnlyScores ==
    IsSearch
    => /\ index = pre.index
       /\ DOMAIN local_id = DOMAIN pre.local_id
       /\ \A k \in DOMAIN local_id :
              /\ Len(local_id[k]) = Len(pre.local_id[k])
              /\ \A i \in 1..Len(local_id[k]) :
                     LET new == local_id[k][i]
                         old == pre.local_id[k][i]
                     IN  /\ new.id = old.id
                         /\ new.embeddings = old.embeddings
                         /\ \/ new.metadata = old.metadata
                            \/ /\ new \in Range(last.result)
                               /\ OnlyScoreSet(old.metadata, new.metadata)
       /\ \A r \in 1..Len(last.result) :
              last.result[r] \in Range(local_id[last.namespace])

\* a search returning one of two stored records: the one returned had
\* metadata and no score and now carries both, the other is as it was
C17_Witness ==
    /\ IsSearch
    /\ last.error = "ok"
    /\ Len(last.result) = 1
    /\ Len(pre.local_id[last.namespace]) = 2
    /\ \E i \in 1..2 :
           /\ local_id[last.namespace][i] = last.result[1]
           /\ pre.local_id[last.namespace][i].metadata = StoredMeta
           /\ local_id[last.namespace][i].metadata # StoredMeta
           /\ local_id[last.namespace][3 - i] = pre.local_id[last.namespace][3 - i]

----------------------------------------------------------------------------
(* C18: delete on a namespace key that is not in the registry fails with
   NotFound whatever ids and delete_all it is given, does not create the
   namespace and leaves the registry as it was. *)
C18_DeleteUnknownNamespaceFails ==
    (IsDelete /\ last.namespace \notin DOMAIN pre.local_id)
    => /\ last.error = "NotFound"
       /\ Unchanged
       /\ last.namespace \notin DOMAIN local_id \cup DOMAIN index

\* a delete with neither ids nor delete_all on a namespace never created
C18_Witness ==
    /\ IsDelete
    /\ last.namespace \notin DOMAIN pre.local_id
    /\ last.ids = NoValue
    /\ ~last.delete_all
    /\ last.error = "NotFound"

(* C19: delete given a list of ids and delete_all = true ends as the same
   delete given the list and delete_all = false: only the listed records
   go, and with the empty list the namespace is not cleared. *)
C19_IdsHavePriority ==
    (DeleteIdsGiven /\ last.delete_all /\ last.namespace \in DOMAIN pre.local_id)
    => /\ \E acceptsEmpty \in BOOLEAN :
              LET listed == delete(pre.local_id, pre.index, last.ids, FALSE,
                                   last.namespace, acceptsEmpty)
              IN  /\ last.error = listed.error
                  /\ local_id = listed.local_id
                  /\ index = listed.index
       /\ last.ids = Some(<<>>)
          => local_id[last.namespace] = pre.local_id[last.namespace]

\* "a" and "b" stored, delete of "a" with delete_all = true: "b" stays
C19_Witness ==
    /\ DeleteIdsGiven
    /\ last.delete_all
    /\ last.ids = Some(<<"a">>)
    /\ IdsOf(RecordsOf(pre.local_id, last.namespace)) = {"a", "b"}
    /\ last.error = "ok"
    /\ IdsOf(RecordsOf(local_id, last.namespace)) = {"b"}

\* a delete that was given no ids and delete_all = true
DeleteAllGiven == IsDelete /\ last.ids = NoValue /\ last.delete_all

(* C20: delete(delete_all = true) on an existing namespace, in whatever state
   it is, succeeds and leaves it with 0 records and 0 rows and still in the
   registry; a second delete_all right after it succeeds too and leaves the
   same state. *)
C20_DeleteAllEmptiesAndRepeats ==
    (DeleteAllGiven /\ last.namespace \in DOMAIN pre.local_id)
    => /\ last.error = "ok"
       /\ last.namespace \in DOMAIN local_id
       /\ last.namespace \in DOMAIN index
       /\ local_id[last.namespace] = <<>>
       /\ index[last.namespace].rows = <<>>
       /\ delete(local_id, index, NoValue, TRUE, last.namespace, TRUE)
              = Outcome(local_id, index, "ok", <<>>)

----------------------------------------------------------------------------
(* C29: in every state reached from a freshly constructed store by add,
   delete and search calls, the ids of the records of each namespace's
   record list are pairwise distinct. *)
C29_IdsDistinct ==
    \A k \in DOMAIN local_id :
        Distinct([i \in 1..Len(local_id[k]) |-> local_id[k][i].id])

\* an add of a batch of the right length that repeats an id not yet stored
C29_Witness ==
    /\ IsAdd
    /\ Len(last.vectors) = 2
    /\ last.vectors[1].id = last.vectors[2].id
    /\ ~WrongLength(last.namespace, last.vectors)
    /\ last.vectors[1].id \notin IdsOf(RecordsOf(pre.local_id, last.namespace))
    /\ last.error = "DuplicateId"
    /\ NothingAdded

(* C30: add of a batch holding a record of the wrong length and, anywhere in
   the batch, a record with a duplicate id is rejected with DuplicateId, not
   DimensionMismatch: uniqueness is checked for the whole batch before any
   length is. *)
C30_DuplicateBeforeLength ==
    (/\ IsAdd
     /\ WrongLength(last.namespace, last.vectors)
     /\ HasDuplicate(last.vectors, RecordsOf(pre.local_id, last.namespace)))
    => last.error = "DuplicateId"

(* C27: a namespace other than the default comes into existence only through
   an add call, with the embedding length of that call's first record as its
   dimension; the dimension of an existing namespace is never changed by a
   later add, delete by ids or delete_all; and every stored record's
   embedding is as long as the dimension of its namespace. *)
C27_DimensionIsFixed ==
    /\ \A k \in DOMAIN local_id \ DOMAIN pre.local_id :
           /\ IsAdd
           /\ k = last.namespace
           /\ last.vectors # <<>>
           /\ k \in DOMAIN index
           /\ index[k].d = Len(last.vectors[1].embeddings)
    /\ \A k \in DOMAIN pre.index :
           k \in DOMAIN index /\ index[k].d = pre.index[k].d
    /\ \A k \in DOMAIN local_id :
           \A i \in 1..Len(local_id[k]) :
               k \in DOMAIN index /\ Len(local_id[k][i].embeddings) = index[k].d

(* C28: namespaces are isolated: a call on one namespace leaves the record
   list and the FlatIndex of every other namespace as they were; add answers
   DuplicateId only for an id repeated in the batch or stored in the target
   namespace, so an id stored elsewhere can be added; and search returns
   only records of the namespace it searched. *)
C28_NamespacesIsolated ==
    last.op # "idle"
    => /\ \A k \in (DOMAIN pre.local_id \cup DOMAIN local_id) \ {last.namespace} :
              /\ k \in DOMAIN pre.local_id
              /\ local_id[k] = pre.local_id[k]
       /\ \A k \in (DOMAIN pre.index \cup DOMAIN index) \ {last.namespace} :
              /\ k \in DOMAIN pre.index
              /\ index[k] = pre.index[k]
       /\ (IsAdd /\ last.error = "DuplicateId")
          => HasDuplicate(last.vectors, RecordsOf(pre.local_id, last.namespace))
       /\ IsSearch
          => \A r \in 1..Len(last.result) :
                 last.result[r] \in Range(local_id[last.namespace])

----------------------------------------------------------------------------
(* Vocabulary of the persistence properties *)

IsSave == last.op = "save_local"

IsLoad == last.op = "load_local"

\* load_local returned a store
Loaded == IsLoad /\ last.error = "ok"

\* the key is in both maps of the store s, with a list and an IndexFlatIP
IsNamespaceOf(s, k) ==
    /\ k \in DOMAIN s.local_id
    /\ k \in DOMAIN s.index
    /\ s.local_id[k].kind = "list"
    /\ s.index[k].kind = "IndexFlatIP"

(* C21: in every store the constructor or a load has produced, and in every
   state add, delete and search take it to, the default namespace key is in
   the registry and maps to a record list paired with a FlatIndex. *)
C21_DefaultNamespacePresent ==
    /\ None \in DOMAIN local_id
    /\ None \in DOMAIN index
    /\ Loaded => IsNamespaceOf(last.store, None)

(* C22: a load for a list of namespaces without the default one returns a
   store whose default namespace is an empty record list paired with an
   empty FlatIndex of the configured dimension d, as in a freshly
   constructed store. *)
C22_DefaultSynthesizedEmpty ==
    (Loaded /\ None \notin Range(last.namespaces))
    => /\ IsNamespaceOf(last.store, None)
       /\ last.store.local_id[None] = ListObject(<<>>)
       /\ last.store.index[None] = IndexObject(IndexFlatIP(last.d))

\* the directory holds, for every namespace save_all writes, the two files
\* save_all writes for it
SavedAll ==
    /\ disk.isdir
    /\ disk.files = WriteAll(disk.files, local_id, index, DOMAIN index)

(* C23: saving all namespaces of a store and then loading the same set of
   namespace keys from the directory yields a store in which every namespace
   has the same records (ids, embeddings, metadata) in the same order and a
   FlatIndex of the same dimension with the same rows in the same order,
   empty namespaces included. *)
C23_SaveAllThenLoadIsSame ==
    (IsLoad /\ SavedAll /\ Range(last.namespaces) = DOMAIN local_id)
    => /\ last.error = "ok"
       /\ DOMAIN last.store.local_id = DOMAIN local_id
       /\ DOMAIN last.store.index = DOMAIN local_id
       /\ \A k \in DOMAIN local_id :
              /\ last.store.local_id[k] = ListObject(local_id[k])
              /\ k \in DOMAIN index
              /\ last.store.index[k] = IndexObject(index[k])

(* C24: save_local(namespace = N, save_all = false) for a namespace N of the
   registry, default or named, succeeds and writes exactly two files for N,
   the index and the record list, under the name 'index' for the default
   namespace and '<N>_index' for another: the names save_all writes and
   load_local reads. *)
C24_SaveOneNamespace ==
    (IsSave /\ ~last.save_all /\ last.namespace \in DOMAIN pre.local_id)
    => LET faiss == FileName(last.namespace, ".faiss")
           pkl == FileName(last.namespace, ".pkl")
       IN  /\ last.error = "ok"
           /\ disk.isdir
           /\ DOMAIN disk.files = DOMAIN last.before.files \cup {faiss, pkl}
           /\ \A n \in DOMAIN last.before.files \ {faiss, pkl} :
                  disk.files[n] = last.before.files[n]
           /\ Readable(disk.files, faiss, "faiss")
           /\ Readable(disk.files, pkl, "pickle")
           /\ last.namespace \in DOMAIN index
           /\ read_index(disk.files[faiss]) = index[last.namespace]
           /\ pickle_load(disk.files[pkl]) = local_id[last.namespace]

\* one of the two files of the namespace is not in the directory or does
\* not parse
Unreadable(namespace) ==
    \/ ~Readable(disk.files, FileName(namespace, ".faiss"), "faiss")
    \/ ~Readable(disk.files, FileName(namespace, ".pkl"), "pickle")

(* C25: when, for some namespace of the list given to load_local on an
   existing directory, the index file or the record-list file is missing or
   unreadable, the load raises an error that names such a namespace and
   returns no store; the namespace is never passed over, even when the
   other namespaces of the list load correctly. *)
C25_LoadFailsLoudly ==
    (/\ IsLoad
     /\ disk.isdir
     /\ \E i \in 1..Len(last.namespaces) : Unreadable(last.namespaces[i]))
    => /\ last.error = "RuntimeError"
       /\ last.named # NoValue
       /\ last.named[1] \in Range(last.namespaces)
       /\ Unreadable(last.named[1])
       /\ \A i \in 1..Len(last.namespaces) :
              Unreadable(last.namespaces[i])
                  => \E j \in 1..i : last.namespaces[j] = last.named[1]
       /\ DOMAIN last.store.local_id = {}
       /\ DOMAIN last.store.index = {}

\* the default namespace loads, the record-list file of "ns" was damaged
C25_Witness ==
    /\ IsLoad
    /\ last.namespaces = <<None, "ns">>
    /\ ~Unreadable(None)
    /\ Readable(disk.files, FileName("ns", ".faiss"), "faiss")
    /\ FileName("ns", ".pkl") \in DOMAIN disk.files
    /\ disk.files[FileName("ns", ".pkl")] = Damaged
    /\ last.error = "RuntimeError"
    /\ last.named = Some("ns")

\* both files of the namespace parse, and the index file holds a number of
\* rows that is not the number of records of the record-list file
Mismatched(namespace) ==
    /\ ~Unreadable(namespace)
    /\ disk.files[FileName(namespace, ".faiss")].ntotal
           # Len(pickle_load(disk.files[FileName(namespace, ".pkl")]))

(* C26: loading a namespace whose index file and record-list file both parse
   but hold different numbers of rows and records fails (CorruptData); no
   loaded store has a namespace whose record list is not as long as its
   FlatIndex has rows. *)
C26_LoadRejectsMismatch ==
    /\ (/\ IsLoad
        /\ disk.isdir
        /\ \E i \in 1..Len(last.namespaces) : Mismatched(last.namespaces[i]))
       => last.error # "ok"
    /\ Loaded
       => \A k \in DOMAIN last.store.local_id :
              IsNamespaceOf(last.store, k)
                  => Len(last.store.local_id[k].value)
                         = ntotal(last.store.index[k].value)

(* C32: in every state reached from a freshly constructed store by add,
   delete and search calls, add calls that raise included, the record-list
   map and the index map have the same set of namespace keys, and no call
   fails for lack of the index of a registered namespace (KeyError). *)
C32_KeySetsEqual ==
    /\ DOMAIN local_id = DOMAIN index
    /\ (last.op \in {"add", "delete", "search"}) => last.error # "KeyError"

IsInit == last.op = "__init__"

\* exactly one of the two maps was passed to the constructor
OneMapSupplied == (last.local_id = NoValue) # (last.index = NoValue)

(* C31: the constructor raises ValueError exactly when one of the two maps is
   supplied and the other is not; with both maps supplied, empty maps
   included, it succeeds and the store holds the two maps; with neither it
   succeeds and the store holds only the default namespace, an empty list
   with an empty index of dimension d. *)
C31_ConstructorRejectsOneMap ==
    IsInit
    => /\ (last.error = "InvalidArgument") <=> OneMapSupplied
       /\ (last.local_id # NoValue /\ last.index # NoValue)
          => /\ last.error = "ok"
             /\ last.store.local_id = last.local_id[1]
             /\ last.store.index = last.index[1]
       /\ (last.local_id = NoValue /\ last.index = NoValue)
          => /\ last.error = "ok"
             /\ last.store.local_id = (None :> ListObject(<<>>))
             /\ last.store.index = (None :> IndexObject(IndexFlatIP(last.d)))

====
